---- MODULE Spec2Model ----
(***************************************************************************)
(* Model of docker/libreoffice/conversion-service.py: the Flask handlers   *)
(* /convert/docx-to-html, /convert/html-to-docx and /convert/batch, the    *)
(* LibreOfficeConverter they share (supervisor restart, UNO bridge         *)
(* connection, load / export / close, HTML post-processing) and the temp   *)
(* files they create.  Each request is a thread of the Flask server; the   *)
(* requests interleave at every call that touches the office process or    *)
(* the file system.                                                        *)
(***************************************************************************)
EXTENDS Integers, Sequences, FiniteSets, TLC

\* The two concurrently handled requests.
Reqs == {"A", "B"}

\* Stand-in for the interpreter's recursion limit: the deepest nesting of
\* get_uno_context frames before the recursive call raises RecursionError.
MaxDepth == 3

\* Largest number of files in one batch upload.
MaxFiles == 2

Kinds == {"d2h", "h2d", "batch"}

\* What the request carries. d2h: the 'file' part; h2d: the JSON body.
D2hInputs == {"nofile", "emptyname", "ok"}
H2dInputs == {"nobody", "nohtml", "badjson", "ok"}

\* HTML as a sequence of tokens. The injected block is '<head>' followed by
\* two meta tags and the <style> element.
HeadTag == "<head>"
Injected == <<"<head>", "<meta charset>", "<meta viewport>", "<style>">>

\* What the office suite's HTML export may write: the head tag in lower case,
\* or in upper case as older export filters spell it.
Exports ==
    { <<"<html>", "<head>", "<body>">>,
      <<"<html>", "<HEAD>", "<body>">> }

VARIABLES
    pc,        \* position of each request's handler
    kind,      \* endpoint the request was posted to
    inp,       \* d2h / h2d: shape of the request body
    nfiles,    \* batch: number of uploaded files
    idx,       \* batch: file being processed (1 for the single-file endpoints)
    tmp,       \* temp files of the request that exist on disk
    content,   \* content of the request's temp .html file
    exported,  \* what storeToURL wrote for the current file
    depth,     \* nested get_uno_context frames
    attempts,  \* connection attempts of the current conversion
    restarts,  \* supervisor restarts of the current conversion
    ctxValid,  \* the request holds a context of a live office process
    openDocs,  \* documents the request loaded that are still open
    ret,       \* what the conversion returned
    html,      \* html_content, as read back from the temp .html file
    results,   \* batch: the results list
    resp,      \* the response sent
    fails,     \* steps that failed, as <<file index, step>>
    touched,   \* the request created a temp file or called the converter
    procs      \* office processes alive

vars == <<pc, kind, inp, nfiles, idx, tmp, content, exported, depth, attempts,
          restarts, ctxValid, openDocs, ret, html, results, resp, fails, touched,
          procs>>

NoResp == [code |-> 0, body |-> "none", html |-> <<>>, results |-> <<>>, processed |-> 0]
ErrResp(c) == [code |-> c, body |-> "error", html |-> <<>>, results |-> <<>>, processed |-> 0]
HtmlResp(h) == [code |-> 200, body |-> "success", html |-> h, results |-> <<>>, processed |-> 0]
FileResp == [code |-> 200, body |-> "file", html |-> <<>>, results |-> <<>>, processed |-> 0]
BatchResp(rs) == [code |-> 200, body |-> "success", html |-> <<>>, results |-> rs, processed |-> Len(rs)]

\* The counters of connection attempts and restarts. Neither passes MaxDepth
\* in the program, where every attempt but the first takes a frame.
Count(n) == IF n <= MaxDepth THEN n + 1 ELSE n

\* str.replace('<head>', '<head>' + meta + meta + style): every occurrence.
RECURSIVE Replace(_)
Replace(s) ==
    IF s = <<>> THEN <<>>
    ELSE (IF Head(s) = HeadTag THEN Injected ELSE <<Head(s)>>) \o Replace(Tail(s))

\* The converter starts at module import: kill, wait, spawn (which may fail), wait.
Init ==
    /\ pc = [r \in Reqs |-> "idle"]
    /\ kind = [r \in Reqs |-> "none"]
    /\ inp = [r \in Reqs |-> "none"]
    /\ nfiles = [r \in Reqs |-> 0]
    /\ idx = [r \in Reqs |-> 1]
    /\ tmp = [r \in Reqs |-> {}]
    /\ content = [r \in Reqs |-> <<>>]
    /\ exported = [r \in Reqs |-> <<>>]
    /\ depth = [r \in Reqs |-> 0]
    /\ attempts = [r \in Reqs |-> 0]
    /\ restarts = [r \in Reqs |-> 0]
    /\ ctxValid = [r \in Reqs |-> FALSE]
    /\ openDocs = [r \in Reqs |-> 0]
    /\ ret = [r \in Reqs |-> "none"]
    /\ html = [r \in Reqs |-> <<>>]
    /\ results = [r \in Reqs |-> <<>>]
    /\ resp = [r \in Reqs |-> NoResp]
    /\ fails = [r \in Reqs |-> {}]
    /\ touched = [r \in Reqs |-> FALSE]
    /\ procs \in {0, 1}

\* ------------------------------------------------------------ HTTP handlers

\* Bound on the explored interleavings: two single-file requests run
\* concurrently; a batch upload is explored with no other request beside it.
Admitted(r, k) ==
    IF k = "batch" THEN \A q \in Reqs \ {r} : kind[q] = "none"
    ELSE \A q \in Reqs \ {r} : kind[q] # "batch"

\* A request arrives at one of the three conversion endpoints.
Receive(r) ==
    /\ pc[r] = "idle"
    /\ \E k \in Kinds :
        /\ Admitted(r, k)
        /\ kind' = [kind EXCEPT ![r] = k]
        /\ \/ k = "d2h" /\ \E i \in D2hInputs : inp' = [inp EXCEPT ![r] = i]
                        /\ nfiles' = nfiles
           \/ k = "h2d" /\ \E i \in H2dInputs : inp' = [inp EXCEPT ![r] = i]
                        /\ nfiles' = nfiles
           \/ k = "batch" /\ \E n \in 0..MaxFiles : nfiles' = [nfiles EXCEPT ![r] = n]
                          /\ inp' = [inp EXCEPT ![r] = "files"]
    /\ pc' = [pc EXCEPT ![r] = "validate"]
    /\ UNCHANGED <<idx, tmp, content, exported, depth, attempts, restarts, ctxValid,
                   openDocs, ret, html, results, resp, fails, touched, procs>>

\* The request cannot be served as posted.
Malformed(r) ==
    \/ kind[r] = "d2h" /\ inp[r] \in {"nofile", "emptyname"}
    \/ kind[r] = "h2d" /\ inp[r] \in {"nobody", "nohtml"}
    \/ kind[r] = "batch" /\ nfiles[r] = 0

\* The handler's except clause: log, answer 500 with str(e).
Raise(r, step) ==
    /\ resp' = [resp EXCEPT ![r] = ErrResp(500)]
    /\ fails' = [fails EXCEPT ![r] = @ \cup {<<idx[r], step>>}]
    /\ pc' = [pc EXCEPT ![r] = "done"]

\* The first temp file of the handler: the .docx the upload is saved to
\* (docx-to-html, batch) or the .html the posted HTML is written to
\* (html-to-docx). delete=False: the file outlives the with block.
First(r) == IF kind[r] = "h2d" THEN "html" ELSE "docx"
Second(r) == IF kind[r] = "h2d" THEN "docx" ELSE "html"

\* Validate with the first temp file created before the checks.
ValidateLate(r) ==
    /\ pc[r] = "validate"
    /\ tmp' = [tmp EXCEPT ![r] = @ \cup {First(r)}]
    /\ touched' = [touched EXCEPT ![r] = TRUE]
    /\ IF Malformed(r)
       THEN /\ resp' = [resp EXCEPT ![r] = ErrResp(400)]
            /\ pc' = [pc EXCEPT ![r] = "done"]
            /\ fails' = fails
       ELSE IF kind[r] = "h2d" /\ inp[r] = "badjson"
       THEN Raise(r, "json")
       ELSE /\ pc' = [pc EXCEPT ![r] = "mktemp2"]
            /\ UNCHANGED <<resp, fails>>
    /\ UNCHANGED <<kind, inp, nfiles, idx, content, exported, depth, attempts,
                   restarts, ctxValid, openDocs, ret, html, results, procs>>

\* The checks that open each handler. request.get_json() raises on a body that
\* is not JSON; the handler's except clause answers that.
Validate(r) ==
    /\ pc[r] = "validate"
    /\ IF Malformed(r)
       THEN /\ resp' = [resp EXCEPT ![r] = ErrResp(400)]
            /\ pc' = [pc EXCEPT ![r] = "done"]
            /\ fails' = fails
       ELSE IF kind[r] = "h2d" /\ inp[r] = "badjson"
       THEN Raise(r, "json")
       ELSE /\ pc' = [pc EXCEPT ![r] = "mktemp1"]
            /\ UNCHANGED <<resp, fails>>
    /\ UNCHANGED <<kind, inp, nfiles, idx, tmp, content, exported, depth, attempts,
                   restarts, ctxValid, openDocs, ret, html, results, touched, procs>>

MkTemp1(r) ==
    /\ pc[r] = "mktemp1"
    /\ \/ \* created and filled
          /\ tmp' = [tmp EXCEPT ![r] = @ \cup {First(r)}]
          /\ touched' = [touched EXCEPT ![r] = TRUE]
          /\ pc' = [pc EXCEPT ![r] = "mktemp2"]
          /\ UNCHANGED <<resp, fails>>
       \/ \* NamedTemporaryFile raises: nothing was created
          /\ Raise(r, "mktemp")
          /\ UNCHANGED <<tmp, touched>>
       \/ \* created, then file.save / write raises
          /\ tmp' = [tmp EXCEPT ![r] = @ \cup {First(r)}]
          /\ touched' = [touched EXCEPT ![r] = TRUE]
          /\ Raise(r, "save")
    /\ UNCHANGED <<kind, inp, nfiles, idx, content, exported, depth, attempts,
                   restarts, ctxValid, openDocs, ret, html, results, procs>>

\* The second temp file, created empty, and the call of the converter.
MkTemp2(r) ==
    /\ pc[r] = "mktemp2"
    /\ \/ /\ tmp' = [tmp EXCEPT ![r] = @ \cup {Second(r)}]
          /\ content' = [content EXCEPT ![r] = <<>>]
          /\ exported' = [exported EXCEPT ![r] = <<>>]
          /\ depth' = [depth EXCEPT ![r] = 1]
          /\ attempts' = [attempts EXCEPT ![r] = 0]
          /\ restarts' = [restarts EXCEPT ![r] = 0]
          /\ ctxValid' = [ctxValid EXCEPT ![r] = FALSE]
          /\ ret' = [ret EXCEPT ![r] = "none"]
          /\ pc' = [pc EXCEPT ![r] = "connect"]
          /\ UNCHANGED <<resp, fails>>
       \/ /\ Raise(r, "mktemp")
          /\ UNCHANGED <<tmp, content, exported, depth, attempts, restarts, ctxValid, ret>>
    /\ UNCHANGED <<kind, inp, nfiles, idx, openDocs, html, results, touched, procs>>

\* ---------------------------------------------------------------- converter

InConversion(r) ==
    pc[r] \in {"connect", "kill", "spawn", "recurse", "load", "props", "store",
               "close", "enhance"}

\* The except clause of docx_to_html / html_to_docx: log, return False.
ConvFail(r, step) ==
    /\ ret' = [ret EXCEPT ![r] = "false"]
    /\ fails' = [fails EXCEPT ![r] = @ \cup {<<idx[r], step>>}]
    /\ depth' = [depth EXCEPT ![r] = 0]
    /\ pc' = [pc EXCEPT ![r] = "check"]

\* The normal return of docx_to_html / html_to_docx.
ConvOk(r) ==
    /\ ret' = [ret EXCEPT ![r] = "true"]
    /\ depth' = [depth EXCEPT ![r] = 0]
    /\ pc' = [pc EXCEPT ![r] = "check"]

\* get_uno_context, the try block: resolve the office process's context.
Connect(r) ==
    /\ pc[r] = "connect"
    /\ attempts' = [attempts EXCEPT ![r] = Count(@)]
    /\ \/ \* connected: an office process is alive and accepts
          /\ procs >= 1
          /\ ctxValid' = [ctxValid EXCEPT ![r] = TRUE]
          /\ pc' = [pc EXCEPT ![r] = "load"]
          /\ UNCHANGED <<ret, fails, depth>>
       \/ \* NoConnectException: no process, or one that does not accept yet
          /\ pc' = [pc EXCEPT ![r] = "kill"]
          /\ UNCHANGED <<ctxValid, ret, fails, depth>>
       \/ \* any other exception leaves get_uno_context
          /\ ConvFail(r, "connect")
          /\ UNCHANGED ctxValid
    /\ UNCHANGED <<kind, inp, nfiles, idx, tmp, content, exported, restarts,
                   openDocs, html, results, resp, touched, procs>>

\* taskkill succeeded: every office process is gone, and with it every
\* context and open document of every request.
KillAll(r) ==
    /\ procs' = 0
    /\ ctxValid' = [q \in Reqs |-> FALSE]
    /\ openDocs' = [q \in Reqs |-> 0]
    /\ pc' = [pc EXCEPT ![r] = "spawn"]

\* Kill as it would be under a lock on the office process: the restart waits
\* until no other request is between its connection and its return.
KillLocked(r) ==
    /\ pc[r] = "kill"
    /\ \A q \in Reqs \ {r} : pc[q] \notin {"load", "props", "store", "close"}
    /\ restarts' = [restarts EXCEPT ![r] = Count(@)]
    /\ \/ KillAll(r)
       \/ /\ pc' = [pc EXCEPT ![r] = "recurse"]
          /\ UNCHANGED <<procs, ctxValid, openDocs>>
    /\ UNCHANGED <<kind, inp, nfiles, idx, tmp, content, exported, depth, attempts,
                   ret, html, results, resp, fails, touched>>

\* start_libreoffice_service, first half: taskkill every office process.
\* An exception skips the spawn (the try block covers both).
Kill(r) ==
    /\ pc[r] = "kill"
    /\ restarts' = [restarts EXCEPT ![r] = Count(@)]
    /\ \/ KillAll(r)
       \/ /\ pc' = [pc EXCEPT ![r] = "recurse"]
          /\ UNCHANGED <<procs, ctxValid, openDocs>>
    /\ UNCHANGED <<kind, inp, nfiles, idx, tmp, content, exported, depth, attempts,
                   ret, html, results, resp, fails, touched>>

\* start_libreoffice_service, second half: Popen the office process. No handle
\* is kept; a failure is logged and swallowed.
Spawn(r) ==
    /\ pc[r] = "spawn"
    /\ \/ procs' = procs + 1
       \/ procs' = procs
    /\ pc' = [pc EXCEPT ![r] = "recurse"]
    /\ UNCHANGED <<kind, inp, nfiles, idx, tmp, content, exported, depth, attempts,
                   restarts, ctxValid, openDocs, ret, html, results, resp, fails,
                   touched>>

\* Recurse as a retry loop: no frame is taken, so nothing ends the retries.
RecurseLoop(r) ==
    /\ pc[r] = "recurse"
    /\ depth' = [depth EXCEPT ![r] = IF @ < MaxDepth THEN @ + 1 ELSE @]
    /\ pc' = [pc EXCEPT ![r] = "connect"]
    /\ UNCHANGED <<ret, fails>>
    /\ UNCHANGED <<kind, inp, nfiles, idx, tmp, content, exported, attempts,
                   restarts, ctxValid, openDocs, html, results, resp, touched, procs>>

\* get_uno_context, the end of the except clause: sleep, then call itself.
\* The call raises RecursionError once the frames are used up.
Recurse(r) ==
    /\ pc[r] = "recurse"
    /\ IF depth[r] < MaxDepth
       THEN /\ depth' = [depth EXCEPT ![r] = @ + 1]
            /\ pc' = [pc EXCEPT ![r] = "connect"]
            /\ UNCHANGED <<ret, fails>>
       ELSE ConvFail(r, "connect")
    /\ UNCHANGED <<kind, inp, nfiles, idx, tmp, content, exported, attempts,
                   restarts, ctxValid, openDocs, html, results, resp, touched, procs>>

\* Desktop instance and loadComponentFromURL. html_to_docx goes on to the
\* export: apply_template_styles does nothing.
Load(r) ==
    /\ pc[r] = "load"
    /\ \/ /\ ctxValid[r]
          /\ openDocs' = [openDocs EXCEPT ![r] = @ + 1]
          /\ pc' = [pc EXCEPT ![r] = IF kind[r] = "h2d" THEN "store" ELSE "props"]
          /\ UNCHANGED <<ret, fails, depth>>
       \/ /\ ConvFail(r, "load")
          /\ UNCHANGED openDocs
    /\ UNCHANGED <<kind, inp, nfiles, idx, tmp, content, exported, attempts,
                   restarts, ctxValid, html, results, resp, touched, procs>>

\* docx_to_html only: set UseFullHeight / UseFullWidth on the document properties.
Props(r) ==
    /\ pc[r] = "props"
    /\ \/ /\ ctxValid[r]
          /\ pc' = [pc EXCEPT ![r] = "store"]
          /\ UNCHANGED <<ret, fails, depth>>
       \/ ConvFail(r, "props")
    /\ UNCHANGED <<kind, inp, nfiles, idx, tmp, content, exported, attempts,
                   restarts, ctxValid, openDocs, html, results, resp, touched, procs>>

\* storeToURL: the export filter writes the second temp file.
Store(r) ==
    /\ pc[r] = "store"
    /\ \/ /\ ctxValid[r]
          /\ IF kind[r] = "h2d"
             THEN UNCHANGED <<content, exported>>
             ELSE \E e \in Exports :
                    /\ content' = [content EXCEPT ![r] = e]
                    /\ exported' = [exported EXCEPT ![r] = e]
          /\ pc' = [pc EXCEPT ![r] = "close"]
          /\ UNCHANGED <<ret, fails, depth>>
       \/ /\ ConvFail(r, "store")
          /\ UNCHANGED <<content, exported>>
    /\ UNCHANGED <<kind, inp, nfiles, idx, tmp, attempts, restarts, ctxValid,
                   openDocs, html, results, resp, touched, procs>>

\* document.close(True); html_to_docx then returns True.
Close(r) ==
    /\ pc[r] = "close"
    /\ \/ /\ ctxValid[r]
          /\ openDocs' = [openDocs EXCEPT ![r] = @ - 1]
          /\ IF kind[r] = "h2d"
             THEN ConvOk(r) /\ fails' = fails
             ELSE /\ pc' = [pc EXCEPT ![r] = "enhance"]
                  /\ UNCHANGED <<ret, fails, depth>>
       \/ /\ ConvFail(r, "close")
          /\ UNCHANGED openDocs
    /\ UNCHANGED <<kind, inp, nfiles, idx, tmp, content, exported, attempts,
                   restarts, ctxValid, html, results, resp, touched, procs>>

\* enhance_html_output (the second definition, which replaces the first): read,
\* replace, write back. Its except clause logs and returns; docx_to_html then
\* returns True. open(.., 'w') truncates before the write.
Enhance(r) ==
    /\ pc[r] = "enhance"
    /\ \/ /\ content' = [content EXCEPT ![r] = Replace(@)]
          /\ fails' = fails
       \/ \* the read, or opening for the write, raises
          /\ content' = content
          /\ fails' = [fails EXCEPT ![r] = @ \cup {<<idx[r], "pp">>}]
       \/ \* the write raises: the file stays as open(.., 'w') truncated it
          \* (the empty file also stands for a write cut short part way)
          /\ content' = [content EXCEPT ![r] = <<>>]
          /\ fails' = [fails EXCEPT ![r] = @ \cup {<<idx[r], "pp">>}]
    /\ ret' = [ret EXCEPT ![r] = "true"]
    /\ depth' = [depth EXCEPT ![r] = 0]
    /\ pc' = [pc EXCEPT ![r] = "check"]
    /\ UNCHANGED <<kind, inp, nfiles, idx, tmp, exported, attempts, restarts,
                   ctxValid, openDocs, html, results, resp, touched, procs>>

\* ------------------------------------------------- handlers, after the call

OkEntry(i, h) == [file |-> i, success |-> TRUE, html |-> h]
FailEntry(i) == [file |-> i, success |-> FALSE, html |-> <<>>]

\* The branch on the converter's result.
Check(r) ==
    /\ pc[r] = "check"
    /\ \/ /\ kind[r] = "d2h"
          /\ IF ret[r] = "true" /\ "html" \in tmp[r]
             THEN pc' = [pc EXCEPT ![r] = "read"] /\ resp' = resp
             ELSE /\ resp' = [resp EXCEPT ![r] = ErrResp(500)]
                  /\ pc' = [pc EXCEPT ![r] = "done"]
          /\ results' = results
       \/ /\ kind[r] = "h2d"
          /\ IF ret[r] = "true" /\ "docx" \in tmp[r]
             THEN pc' = [pc EXCEPT ![r] = "send"] /\ resp' = resp
             ELSE /\ resp' = [resp EXCEPT ![r] = ErrResp(500)]
                  /\ pc' = [pc EXCEPT ![r] = "done"]
          /\ results' = results
       \/ /\ kind[r] = "batch"
          /\ IF ret[r] = "true"
             THEN pc' = [pc EXCEPT ![r] = "read"] /\ results' = results
             ELSE /\ results' = [results EXCEPT ![r] = Append(@, FailEntry(idx[r]))]
                  /\ pc' = [pc EXCEPT ![r] = "unlink1"]
          /\ resp' = resp
    /\ UNCHANGED <<kind, inp, nfiles, idx, tmp, content, exported, depth, attempts,
                   restarts, ctxValid, openDocs, ret, html, fails, touched, procs>>

\* open(html_path).read() and the hash; batch appends the success entry.
ReadOutput(r) ==
    /\ pc[r] = "read"
    /\ \/ /\ html' = [html EXCEPT ![r] = content[r]]
          /\ results' = [results EXCEPT ![r] =
                IF kind[r] = "batch" THEN Append(@, OkEntry(idx[r], content[r])) ELSE @]
          /\ pc' = [pc EXCEPT ![r] = "unlink1"]
          /\ UNCHANGED <<resp, fails>>
       \/ /\ Raise(r, "read")
          /\ UNCHANGED <<html, results>>
    /\ UNCHANGED <<kind, inp, nfiles, idx, tmp, content, exported, depth, attempts,
                   restarts, ctxValid, openDocs, ret, touched, procs>>

\* os.unlink(docx_path)
Unlink1(r) ==
    /\ pc[r] = "unlink1"
    /\ \/ /\ tmp' = [tmp EXCEPT ![r] = @ \ {"docx"}]
          /\ pc' = [pc EXCEPT ![r] = "unlink2"]
          /\ UNCHANGED <<resp, fails>>
       \/ /\ Raise(r, "unlink")
          /\ tmp' = tmp
    /\ UNCHANGED <<kind, inp, nfiles, idx, content, exported, depth, attempts,
                   restarts, ctxValid, openDocs, ret, html, results, touched, procs>>

\* os.unlink(html_path), then the response, or the next file of a batch.
Unlink2(r) ==
    /\ pc[r] = "unlink2"
    /\ \/ /\ tmp' = [tmp EXCEPT ![r] = @ \ {"html"}]
          /\ IF kind[r] = "batch" /\ idx[r] < nfiles[r]
             THEN /\ idx' = [idx EXCEPT ![r] = @ + 1]
                  /\ pc' = [pc EXCEPT ![r] = "mktemp1"]
                  /\ resp' = resp
             ELSE /\ resp' = [resp EXCEPT ![r] =
                        IF kind[r] = "batch" THEN BatchResp(results[r])
                        ELSE HtmlResp(html[r])]
                  /\ pc' = [pc EXCEPT ![r] = "done"]
                  /\ idx' = idx
          /\ fails' = fails
       \/ /\ Raise(r, "unlink")
          /\ UNCHANGED <<tmp, idx>>
    /\ UNCHANGED <<kind, inp, nfiles, content, exported, depth, attempts,
                   restarts, ctxValid, openDocs, ret, html, results, touched, procs>>

\* send_file(docx_path, ...): html-to-docx answers with the file, which stays.
SendFile(r) ==
    /\ pc[r] = "send"
    /\ \/ /\ resp' = [resp EXCEPT ![r] = FileResp]
          /\ pc' = [pc EXCEPT ![r] = "done"]
          /\ fails' = fails
       \/ Raise(r, "send")
    /\ UNCHANGED <<kind, inp, nfiles, idx, tmp, content, exported, depth, attempts,
                   restarts, ctxValid, openDocs, ret, html, results, touched, procs>>

\* ------------------------------------------------------------ specification

Step(r) ==
    \/ Validate(r)
    \/ MkTemp1(r)
    \/ MkTemp2(r)
    \/ Connect(r)
    \/ Kill(r)
    \/ Spawn(r)
    \/ Recurse(r)
    \/ Load(r)
    \/ Props(r)
    \/ Store(r)
    \/ Close(r)
    \/ Enhance(r)
    \/ Check(r)
    \/ ReadOutput(r)
    \/ Unlink1(r)
    \/ Unlink2(r)
    \/ SendFile(r)

Next == \E r \in Reqs : Receive(r) \/ Step(r)

Spec == Init /\ [][Next]_vars

\* Each request runs in a thread of its own that the scheduler keeps running.
FairSpec == Spec /\ \A r \in Reqs : WF_vars(Step(r))

\* ------------------------------------------------------------------ claims

Others(r) == Reqs \ {r}

\* Steps of the converter whose failure makes the conversion return False.
ConvSteps == {"connect", "load", "props", "store", "close"}

\* The injected <style> block is in h.
HasStyle(h) == \E i \in 1..Len(h) : h[i] = "<style>"

\* h without what the post-processor injects after a head tag.
RECURSIVE Strip(_)
Strip(h) ==
    IF h = <<>> THEN <<>>
    ELSE (IF Head(h) \in {"<meta charset>", "<meta viewport>", "<style>"}
          THEN <<>> ELSE <<Head(h)>>) \o Strip(Tail(h))

\* h is the export e with the style block inserted.
Styled(e, h) == HasStyle(h) /\ Strip(h) = e

\* C1: once a handler has answered, whatever the outcome, none of the temp
\* files it created for the request exists any more.
C1_TempFilesDeleted ==
    \A r \in Reqs : pc[r] = "done" => tmp[r] = {}

\* C2: one conversion restarts the supervisor at most once and attempts the
\* connection at most twice.
C2_SingleReconnect ==
    \A r \in Reqs : attempts[r] <= 2 /\ restarts[r] <= 1

\* C3: every failed step ends in a JSON error answer (400 or 500) or, in a
\* batch, in an entry with success false for that file; every request is
\* answered by its handler; no success is reported for a file whose conversion
\* returned False.
C3_FailuresSurface ==
    \A r \in Reqs : pc[r] = "done" =>
        /\ resp[r].body \in {"error", "success", "file"}
        /\ \A f \in fails[r] :
              \/ resp[r].body = "error" /\ resp[r].code \in {400, 500}
              \/ /\ kind[r] = "batch"
                 /\ \E i \in 1..Len(resp[r].results) :
                       resp[r].results[i].file = f[1] /\ ~resp[r].results[i].success
        /\ kind[r] = "d2h" /\ resp[r].body = "success" =>
              \A f \in fails[r] : f[2] \notin ConvSteps
        /\ \A i \in 1..Len(resp[r].results) :
              resp[r].results[i].success =>
                 \A f \in fails[r] : ~(f[1] = resp[r].results[i].file /\ f[2] \in ConvSteps)

\* C4: at most one office process started by the service is alive, also while
\* the restarts of concurrent requests interleave.
C4_SingleProcess == procs <= 1

\* C5: no coordination between requests: a connected request at
\* loadComponentFromURL can load its document, and a request whose connection
\* failed can kill every office process, whatever the other request is doing.
C5_NoCoordination ==
    \A r \in Reqs :
        /\ pc[r] = "load" /\ ctxValid[r] => ENABLED (Load(r) /\ pc'[r] # "check")
        /\ pc[r] = "kill" => ENABLED (Kill(r) /\ procs' = 0)

\* C5 witness: a request that loaded its document and has neither exported nor
\* closed it lost its office process to the other request's restart.
C5_RaceReached ==
    \E a \in Reqs : \E b \in Others(a) :
        /\ pc[a] \in {"props", "store", "close"}
        /\ ~ctxValid[a]
        /\ pc[b] = "spawn"

\* C6: a success answer carries the exported HTML with the style block
\* inserted, for every export and also when the post-processing failed.
C6_StyleInjected ==
    \A r \in Reqs :
        /\ kind[r] = "d2h" /\ resp[r].body = "success" => Styled(exported[r], resp[r].html)
        /\ \A i \in 1..Len(resp[r].results) :
              resp[r].results[i].success =>
                 /\ HasStyle(resp[r].results[i].html)
                 /\ Strip(resp[r].results[i].html) \in Exports

C8_ConversionReturns ==
    \A r \in Reqs :
        /\ InConversion(r) ~> (pc[r] = "check" /\ ret[r] \in {"true", "false"})
        /\ (pc[r] = "validate") ~> (pc[r] = "done")

\* C8 witness: a conversion returned False after every connection attempt,
\* each after a restart but the first, failed to connect.
C8_GaveUp ==
    \E r \in Reqs :
        /\ pc[r] = "check" /\ ret[r] = "false"
        /\ attempts[r] = MaxDepth /\ restarts[r] = MaxDepth
        /\ <<idx[r], "connect">> \in fails[r]

\* C9: a batch of n >= 1 files, each upload saved and each connection to the
\* office process made, answers processed = n with n entries in upload order;
\* a failure while handling a file (conversion, reading the output, cleanup)
\* drops no entry.
C9_BatchComplete ==
    \A r \in Reqs :
        ( /\ pc[r] = "done" /\ kind[r] = "batch" /\ nfiles[r] >= 1
          /\ \A f \in fails[r] : f[2] \notin {"mktemp", "save", "connect"} ) =>
            /\ resp[r].body = "success"
            /\ resp[r].processed = nfiles[r]
            /\ resp[r].results = results[r]
            /\ Len(resp[r].results) = nfiles[r]
            /\ \A i \in 1..Len(resp[r].results) : resp[r].results[i].file = i

\* C10: no document is open in the office process while no conversion is in
\* progress.
C10_DocsClosed ==
    (\A r \in Reqs : ~InConversion(r)) => \A r \in Reqs : openDocs[r] = 0

====
